---- MODULE Spec2Model ----
(***************************************************************************)
(* State-machine model of cetana's Tensor (src/src/tensor/mod.rs).         *)
(*                                                                         *)
(* A Tensor is the record [data, shape, backend].  f32 values are modelled *)
(* as integers (exact for +, -, *, min, max on the small values used);     *)
(* transcendental kernels (exp, ln, sqrt, powf, /) are left uninterpreted  *)
(* as tagged records.  A call's outcome is Ok (a Tensor or a scalar),      *)
(* Err (an MlError value) or Panic (the Rust call aborts).                 *)
(*                                                                         *)
(* The client of the library is sequential and propagates failures with   *)
(* `?`, as the repository's tests do: it constructs a left operand,        *)
(* optionally a right operand, then applies operations to them, and stops  *)
(* at the first call that fails.  `lhs` and `rhs` hold the constructed     *)
(* operands and `res` the record of the last call (operation, copies of    *)
(* its operands, outcome, backend methods it invoked).  Unary operations   *)
(* never read `rhs`, so they are explored while no right operand is bound. *)
(*                                                                         *)
(* The process environment is the resolved default device and whether the  *)
(* reference backend and the device's accelerated backend can be           *)
(* constructed.                                                            *)
(***************************************************************************)
EXTENDS Integers, Sequences, FiniteSets, TLC

VARIABLES device, cpu_ok, accel_ok, lhs, rhs, res

vars == <<device, cpu_ok, accel_ok, lhs, rhs, res>>

---------------------------------------------------------------------------
(* Bounds of the explored inputs.                                          *)

\* largest dimension size of an input shape
MaxDim == 2
\* largest rank of an input shape
MaxRank == 3
\* longest input data buffer
MaxLen == 4
\* most rows handed to Tensor::new
MaxRows == 2
\* largest axis index handed to sum / max_along_axis
MaxAxis == 3
\* largest scalar argument (mul_scalar, add_scalar, clip, pow)
MaxScalar == 2

---------------------------------------------------------------------------
(* Helpers.                                                                *)

\* 0-based indexing, as in the source
At(s, i) == s[i + 1]

RECURSIVE product(_)
\* shape.iter().product()
product(shape) ==
    IF shape = <<>> THEN 1 ELSE Head(shape) * product(Tail(shape))

RECURSIVE flatten(_)
\* data.into_iter().flatten().collect()
flatten(rows) ==
    IF rows = <<>> THEN <<>> ELSE Head(rows) \o flatten(Tail(rows))

RECURSIVE SumSeq(_)
SumSeq(s) == IF s = <<>> THEN 0 ELSE Head(s) + SumSeq(Tail(s))

RECURSIVE SeqsUpTo(_, _)
\* all sequences over S of length at most n
SeqsUpTo(S, n) ==
    IF n = 0 THEN {<<>>}
    ELSE LET shorter == SeqsUpTo(S, n - 1)
         IN  shorter \cup {Append(s, x) : s \in shorter, x \in S}

Min2(a, b) == IF a < b THEN a ELSE b
Max2(a, b) == IF a > b THEN a ELSE b

---------------------------------------------------------------------------
(* Values of the data model.                                               *)

DeviceTypes == {"Cpu", "Cuda", "Mps", "Vulkan"}

NoTensor == [data |-> <<>>, shape |-> <<>>, backend |-> "None"]

Tensor(data, shape, backend) ==
    [data |-> data, shape |-> shape, backend |-> backend]

NoError == [type |-> "None"]

InvalidShape(expected, got) ==
    [type |-> "InvalidShape", expected |-> expected, got |-> got]

InvalidDataLength(expected, got) ==
    [type |-> "InvalidDataLength", expected |-> expected, got |-> got]

InvalidOperation(op) ==
    [type |-> "InvalidOperation", op |-> op]

InvalidAxis(axis, shape) ==
    [type |-> "InvalidAxis", axis |-> axis, shape |-> shape]

MatrixMultiplicationError(left_shape, right_shape) ==
    [type |-> "MatrixMultiplicationError",
     left_shape |-> left_shape, right_shape |-> right_shape]

\* the error a failed Backend::new() reports
BackendError(kind) == [type |-> "BackendError", backend |-> kind]

\* outcome of a call: kind, returned Tensor, returned scalar, error, and the
\* Backend contract methods invoked on the way
Ret(kind, out, val, err, calls) ==
    [kind |-> kind, out |-> out, val |-> val, err |-> err, calls |-> calls]

Ok(t, calls) == Ret("Ok", t, 0, NoError, calls)
OkVal(v, calls) == Ret("Ok", NoTensor, v, NoError, calls)
Err(e, calls) == Ret("Err", NoTensor, 0, e, calls)
Panic(calls) == Ret("Panic", NoTensor, 0, NoError, calls)

\* the environment of one call: the resolved default device and the outcome
\* of each backend construction attempted during the call
Env(dev, cpuOk, accelOk, lenient) ==
    [device |-> dev, cpuOk |-> cpuOk, accelOk |-> accelOk, lenient |-> lenient]

---------------------------------------------------------------------------
(* Backend construction.                                                   *)

\* DeviceManager::get_default_device(): the process-wide resolved kind
get_default_device(env) == env.device

\* CpuBackend::new()
CpuBackend_new(env) ==
    IF env.cpuOk THEN [ok |-> TRUE, backend |-> "Cpu"]
    ELSE [ok |-> FALSE, backend |-> "Cpu"]

\* CudaBackend::new()
CudaBackend_new(env) ==
    IF env.accelOk THEN [ok |-> TRUE, backend |-> "Cuda"]
    ELSE [ok |-> FALSE, backend |-> "Cuda"]

\* VulkanBackend::new()
VulkanBackend_new(env) ==
    IF env.accelOk THEN [ok |-> TRUE, backend |-> "Vulkan"]
    ELSE [ok |-> FALSE, backend |-> "Vulkan"]

\* the backend match of Tensor::new: an accelerated backend that fails to
\* construct falls back to CpuBackend::new()?
new_backend(env) ==
    LET device_type == get_default_device(env)
    IN  CASE device_type = "Cuda" ->
               IF CudaBackend_new(env).ok THEN CudaBackend_new(env)
               ELSE CpuBackend_new(env)
          [] device_type = "Vulkan" ->
               IF VulkanBackend_new(env).ok THEN VulkanBackend_new(env)
               ELSE CpuBackend_new(env)
          [] OTHER -> CpuBackend_new(env)

\* the backend match of Tensor::from_vec: every arm ends in `?`
from_vec_backend(env) ==
    LET device_type == get_default_device(env)
    IN  CASE device_type = "Cpu" -> CpuBackend_new(env)
          [] device_type = "Cuda" -> CpuBackend_new(env)
          [] device_type = "Mps" -> CpuBackend_new(env)
          [] device_type = "Vulkan" -> VulkanBackend_new(env)

---------------------------------------------------------------------------
(* Constructors.                                                           *)

\* Tensor::new(data: Vec<Vec<f32>>)
new(data, env) ==
    IF Len(data) = 0 THEN Panic(<<>>)      \* data[0] on an empty Vec
    ELSE LET shape == <<Len(data), Len(data[1])>>
             flat_data == flatten(data)
             backend == new_backend(env)
         IN  IF ~backend.ok THEN Err(BackendError(backend.backend), <<>>)
             ELSE Ok(Tensor(flat_data, shape, backend.backend), <<>>)

\* Tensor::from_vec(data, shape)
from_vec(data, shape, env) ==
    LET expected_len == product(shape)
    IN  IF Len(data) # expected_len
        THEN Err(InvalidDataLength(expected_len, Len(data)), <<>>)
        ELSE LET backend == from_vec_backend(env)
             IN  IF ~backend.ok THEN Err(BackendError(backend.backend), <<>>)
                 ELSE Ok(Tensor(data, shape, backend.backend), <<>>)

\* `Tensor::from_vec(result, shape)` as the tail of an operation that has
\* already invoked the backend methods `calls`
wrap(result, shape, env, calls) ==
    LET r == from_vec(result, shape, env)
    IN  Ret(r.kind, r.out, r.val, r.err, calls)

---------------------------------------------------------------------------
(* The Backend capability contract (spec.md 4.2).  The kernels live in the *)
(* backend implementations; a buffer whose length breaks the contract's    *)
(* precondition either aborts the kernel or is processed leniently.        *)

\* a value of a kernel the model leaves uninterpreted
F32(fn, x, y) == [fn |-> fn, x |-> x, y |-> y]

NEG_INFINITY == F32("neg_infinity", 0, 0)

Buf(b) == [ok |-> TRUE, buf |-> b]
Abort == [ok |-> FALSE, buf |-> <<>>]

\* Backend::matmul(a, b, m, k, n) -> buffer[m*n]
backend_matmul(a, b, m, k, n, env) ==
    IF Len(a) = m * k /\ Len(b) = k * n
    THEN Buf([p \in 1..(m * n) |->
               LET i == (p - 1) \div n
                   j == (p - 1) % n
               IN  SumSeq([l \in 1..k |->
                              At(a, i * k + (l - 1)) * At(b, (l - 1) * n + j)])])
    ELSE IF env.lenient THEN Buf([p \in 1..(m * n) |-> 0]) ELSE Abort

\* Backend::add / sub / multiply / div: elementwise, equal-length buffers
backend_zip(fn, a, b, env) ==
    IF Len(a) = Len(b) \/ env.lenient
    THEN Buf([p \in 1..Min2(Len(a), Len(b)) |->
               CASE fn = "add" -> a[p] + b[p]
                 [] fn = "sub" -> a[p] - b[p]
                 [] fn = "multiply" -> a[p] * b[p]
                 [] OTHER -> F32(fn, a[p], b[p])])
    ELSE Abort

\* Backend::exp / sqrt / pow: elementwise unary transforms
backend_map(fn, a, power) == [p \in 1..Len(a) |-> F32(fn, a[p], power)]

\* Backend::sum(buffer) -> scalar
backend_sum(a) == SumSeq(a)

\* Backend::mean(buffer) -> scalar: total divided by element count
backend_mean(a) == F32("div", SumSeq(a), Len(a))

---------------------------------------------------------------------------
(* Tensor operations.                                                      *)

\* Tensor::matmul
matmul(self, other, env) ==
    IF Len(self.shape) < 2 \/ Len(other.shape) < 1
    THEN Panic(<<>>)                     \* self.shape[1] / other.shape[0]
    ELSE IF self.shape[2] # other.shape[1]
    THEN Err(MatrixMultiplicationError(self.shape, other.shape), <<>>)
    ELSE IF Len(other.shape) < 2
    THEN Panic(<<>>)                     \* other.shape[1]
    ELSE LET m == self.shape[1]
             n == other.shape[2]
             k == self.shape[2]
             result == backend_matmul(self.data, other.data, m, k, n, env)
         IN  IF ~result.ok THEN Panic(<<"matmul">>)
             ELSE wrap(result.buf, <<m, n>>, env, <<"matmul">>)

\* Tensor::transpose
transpose(self, env) ==
    IF Len(self.shape) # 2
    THEN Err(InvalidShape(<<2>>, self.shape), <<>>)
    ELSE LET m == self.shape[1]
             n == self.shape[2]
             len == Len(self.data)
             result == [p \in 1..len |->
                 IF \E i \in 0..(m - 1), j \in 0..(n - 1) : j * m + i = p - 1
                 THEN LET j == (p - 1) \div m
                          i == (p - 1) % m
                      IN  At(self.data, i * n + j)
                 ELSE 0]
         IN  IF \E i \in 0..(m - 1), j \in 0..(n - 1) :
                    i * n + j >= len \/ j * m + i >= len
             THEN Panic(<<>>)
             ELSE wrap(result, <<n, m>>, env, <<>>)

\* is_broadcast without the test that rhs is 1-D
is_broadcast_any_rhs_rank(self, other) ==
    /\ Len(self.shape) = 2
    /\ Len(other.shape) >= 1
    /\ self.shape[2] = other.shape[1]

\* the row-broadcast test shared by add and sub
is_broadcast(self, other) ==
    /\ Len(self.shape) = 2
    /\ Len(other.shape) = 1
    /\ self.shape[2] = other.shape[1]

\* the broadcast loop of add: result.chunks_mut(features)
add_broadcast(self, other, env) ==
    LET features == self.shape[2]
        len == Len(self.data)
        result == [p \in 1..len |->
                     self.data[p] + At(other.data, (p - 1) % features)]
    IN  IF features = 0 THEN Panic(<<>>)     \* chunk size must be non-zero
        ELSE IF \E p \in 1..len : (p - 1) % features >= Len(other.data)
        THEN Panic(<<>>)
        ELSE wrap(result, self.shape, env, <<>>)

\* the broadcast loop of sub: for i in 0..batch_size, for j in 0..features
sub_broadcast(self, other, env) ==
    LET batch_size == self.shape[1]
        features == self.shape[2]
        len == Len(self.data)
        result == [p \in 1..len |->
                     IF p <= batch_size * features
                     THEN self.data[p] - At(other.data, (p - 1) % features)
                     ELSE 0]
    IN  IF batch_size * features > len
           \/ (batch_size > 0 /\ features > Len(other.data))
        THEN Panic(<<>>)
        ELSE wrap(result, self.shape, env, <<>>)

\* the equal-shape tail with the kernel called ahead of the shape test
elementwise_dispatch_first(fn, self, other, env) ==
    LET result == backend_zip(fn, self.data, other.data, env)
    IN  IF ~result.ok THEN Panic(<<fn>>)
        ELSE IF self.shape # other.shape
        THEN Err(InvalidShape(self.shape, other.shape), <<fn>>)
        ELSE wrap(result.buf, self.shape, env, <<fn>>)

\* the equal-shape tail shared by add, sub, mul and div
elementwise(fn, self, other, env) ==
    IF self.shape # other.shape
    THEN Err(InvalidShape(self.shape, other.shape), <<>>)
    ELSE LET result == backend_zip(fn, self.data, other.data, env)
         IN  IF ~result.ok THEN Panic(<<fn>>)
             ELSE wrap(result.buf, self.shape, env, <<fn>>)

\* Tensor::add
add(self, other, env) ==
    IF is_broadcast(self, other) THEN add_broadcast(self, other, env)
    ELSE elementwise("add", self, other, env)

\* Tensor::sub
sub(self, other, env) ==
    IF is_broadcast(self, other) THEN sub_broadcast(self, other, env)
    ELSE elementwise("sub", self, other, env)

\* Tensor::mul
mul(self, other, env) == elementwise("multiply", self, other, env)

\* Tensor::div
div(self, other, env) == elementwise("div", self, other, env)

\* Tensor::mul_scalar
mul_scalar(self, scalar, env) ==
    wrap([p \in 1..Len(self.data) |-> self.data[p] * scalar],
         self.shape, env, <<>>)

\* Tensor::add_scalar
add_scalar(self, scalar, env) ==
    wrap([p \in 1..Len(self.data) |-> self.data[p] + scalar],
         self.shape, env, <<>>)

\* Tensor::clip: f32::clamp aborts when min > max
clip(self, min, max, env) ==
    IF Len(self.data) > 0 /\ min > max THEN Panic(<<>>)
    ELSE wrap([p \in 1..Len(self.data) |-> Max2(min, Min2(max, self.data[p]))],
              self.shape, env, <<>>)

\* Tensor::log
log(self, env) ==
    wrap([p \in 1..Len(self.data) |-> F32("ln", self.data[p], 0)],
         self.shape, env, <<>>)

\* Tensor::neg
neg(self, env) ==
    wrap([p \in 1..Len(self.data) |-> 0 - self.data[p]], self.shape, env, <<>>)

\* Tensor::exp
exp(self, env) ==
    wrap(backend_map("exp", self.data, 0), self.shape, env, <<"exp">>)

\* Tensor::pow
pow(self, power, env) ==
    wrap(backend_map("pow", self.data, power), self.shape, env, <<"pow">>)

\* Tensor::sqrt
sqrt(self, env) ==
    wrap(backend_map("sqrt", self.data, 0), self.shape, env, <<"sqrt">>)

\* mean without the test for an empty buffer
mean_unchecked(self) == OkVal(backend_mean(self.data), <<"mean">>)

\* Tensor::mean
mean(self) ==
    IF Len(self.data) = 0 THEN Err(InvalidOperation("mean"), <<>>)
    ELSE OkVal(backend_mean(self.data), <<"mean">>)

\* Tensor::sum_all
sum_all(self) == OkVal(backend_sum(self.data), <<"sum">>)

\* Tensor::reshape: the one operation that clones self.backend
reshape(self, new_shape) ==
    LET new_size == product(new_shape)
        current_size == Len(self.data)
    IN  IF new_size # current_size
        THEN Err(InvalidShape(new_shape, <<current_size>>), <<>>)
        ELSE Ok(Tensor(self.data, new_shape, self.backend), <<>>)

\* axis_check with the bound test off by one (axis > rank)
axis_check_off_by_one(op, self, axis) ==
    IF axis > Len(self.shape) THEN InvalidAxis(axis, self.shape)
    ELSE IF Len(self.shape) # 2 THEN InvalidOperation(op)
    ELSE NoError

\* the axis checks shared by sum and max_along_axis; NoError when they pass
axis_check(op, self, axis) ==
    IF axis >= Len(self.shape) THEN InvalidAxis(axis, self.shape)
    ELSE IF Len(self.shape) # 2 THEN InvalidOperation(op)
    ELSE NoError

\* Tensor::sum
sum(self, axis, env) ==
    IF axis_check("sum", self, axis) # NoError
    THEN Err(axis_check("sum", self, axis), <<>>)
    ELSE LET rows == self.shape[1]
             cols == self.shape[2]
             len == Len(self.data)
             \* data.chunks(cols): ceil(len / cols) chunks
             chunks == IF cols = 0 THEN 0 ELSE (len + cols - 1) \div cols
         IN  CASE axis = 0 ->
                   IF rows > 0 /\ cols > 0 /\ rows * cols > len
                   THEN Panic(<<"sum">>)
                   ELSE wrap([j \in 1..cols |->
                               SumSeq([i \in 1..rows |->
                                         At(self.data, (i - 1) * cols + (j - 1))])],
                             <<1, cols>>, env, <<"sum">>)
               [] axis = 1 ->
                   IF cols = 0 \/ chunks > rows
                   THEN Panic(<<"sum">>)  \* chunks(0), or result[i] past rows
                   ELSE wrap([i \in 1..rows |->
                               IF i > chunks THEN 0
                               ELSE SumSeq([j \in 1..Min2(cols, len - (i - 1) * cols) |->
                                              At(self.data, (i - 1) * cols + (j - 1))])],
                             <<rows, 1>>, env, <<"sum">>)
               [] OTHER -> Err(InvalidAxis(axis, self.shape), <<"sum">>)

RECURSIVE MaxSeq(_)
\* fold of f32::max from NEG_INFINITY
MaxSeq(s) ==
    IF s = <<>> THEN NEG_INFINITY
    ELSE IF Len(s) = 1 THEN s[1]
    ELSE Max2(Head(s), MaxSeq(Tail(s)))

\* Tensor::max_along_axis
max_along_axis(self, axis, env) ==
    IF axis_check("max_along_axis", self, axis) # NoError
    THEN Err(axis_check("max_along_axis", self, axis), <<>>)
    ELSE LET rows == self.shape[1]
             cols == self.shape[2]
             len == Len(self.data)
         IN  IF rows > 0 /\ cols > 0 /\ rows * cols > len
             THEN Panic(<<>>)
             ELSE CASE axis = 0 ->
                        wrap([j \in 1..cols |->
                               MaxSeq([i \in 1..rows |->
                                         At(self.data, (i - 1) * cols + (j - 1))])],
                             <<1, cols>>, env, <<>>)
                    [] axis = 1 ->
                        wrap([i \in 1..rows |->
                               MaxSeq([j \in 1..cols |->
                                         At(self.data, (i - 1) * cols + (j - 1))])],
                             <<rows, 1>>, env, <<>>)
                    [] OTHER -> Err(InvalidAxis(axis, self.shape), <<>>)

---------------------------------------------------------------------------
(* Serialization.  A byte is a number in 0..255.  Every number the model  *)
(* handles is below 2^31, the range of TLC's integers, which a usize       *)
(* exceeds.                                                                *)

\* `x as u32`: the low 32 bits of x, taken as two 16-bit halves
as_u32(x) == (x % 65536) + 65536 * ((x \div 65536) % 65536)

\* u32::to_le_bytes
to_le_bytes(x) ==
    <<x % 256, (x \div 256) % 256, (x \div 65536) % 256, (x \div 16777216) % 256>>

\* u32::from_le_bytes
from_le_bytes(b) == b[1] + b[2] * 256 + b[3] * 65536 + b[4] * 16777216

RECURSIVE ilog2(_)
\* the binary exponent of a positive whole number
ilog2(v) == IF v < 2 THEN 0 ELSE 1 + ilog2(v \div 2)

\* the IEEE 754 binary32 bit pattern of a whole number 0 <= v < 2^24
f32_to_bits(v) ==
    IF v = 0 THEN 0
    ELSE LET e == ilog2(v)
         IN  (e + 127) * 2 ^ 23 + (v - 2 ^ e) * 2 ^ (23 - e)

\* the value of a binary32 bit pattern: the whole number it encodes, and
\* otherwise a value known by its bits only
f32_from_bits(b) ==
    LET e == (b \div 2 ^ 23) - 127
        m == b % 2 ^ 23
    IN  IF b = 0 THEN 0
        ELSE IF e \in 0..23 /\ m % 2 ^ (23 - e) = 0
        THEN 2 ^ e + m \div 2 ^ (23 - e)
        ELSE F32("from_bits", b, 0)

\* <Tensor as Serialize>::serialize
serialize(self) ==
    OkVal(to_le_bytes(as_u32(Len(self.shape)))
            \o flatten([k \in 1..Len(self.shape) |->
                          to_le_bytes(as_u32(self.shape[k]))])
            \o flatten([k \in 1..Len(self.data) |->
                          to_le_bytes(f32_to_bits(self.data[k]))]),
          <<>>)

\* the error deserialize builds from the string "Invalid tensor data"
DecodeError == [type |-> "DecodeError", msg |-> "Invalid tensor data"]

\* bytes[cursor..cursor + 4]
word(bytes, cursor) == SubSeq(bytes, cursor + 1, cursor + 4)

\* the guard of the shape loop with the width of the word left out
truncated_ignoring_width(bytes, cursor) == cursor > Len(bytes)

\* the guard of the shape loop: no whole word is left at the cursor
truncated(bytes, cursor) == cursor + 4 > Len(bytes)

RECURSIVE read_shape(_, _, _, _)
\* the shape loop of deserialize; a slice that runs past the end of the
\* input aborts
read_shape(bytes, cursor, remaining, shape) ==
    IF remaining = 0
    THEN [kind |-> "Ok", shape |-> shape, cursor |-> cursor]
    ELSE IF truncated(bytes, cursor)
    THEN [kind |-> "Err", shape |-> shape, cursor |-> cursor]
    ELSE IF cursor + 4 > Len(bytes)
    THEN [kind |-> "Panic", shape |-> shape, cursor |-> cursor]
    ELSE read_shape(bytes, cursor + 4, remaining - 1,
                    Append(shape, from_le_bytes(word(bytes, cursor))))

\* <Tensor as Deserialize>::deserialize
deserialize(bytes, env) ==
    IF Len(bytes) < 4 THEN Err(DecodeError, <<>>)
    ELSE LET shape_len == from_le_bytes(word(bytes, 0))
             header == read_shape(bytes, 4, shape_len, <<>>)
             \* while cursor + 4 <= bytes.len(): whole words only
             count == (Len(bytes) - header.cursor) \div 4
             data == [k \in 1..count |->
                        f32_from_bits(from_le_bytes(
                            word(bytes, header.cursor + 4 * (k - 1))))]
         IN  CASE header.kind = "Err" -> Err(DecodeError, <<>>)
               [] header.kind = "Panic" -> Panic(<<>>)
               [] OTHER -> from_vec(data, header.shape, env)

---------------------------------------------------------------------------
(* Inputs.                                                                 *)

Dims == 0..MaxDim

\* input shapes: rank at most MaxRank, at most MaxLen elements
Shapes == {s \in SeqsUpTo(Dims, MaxRank) : product(s) <= MaxLen}

\* an input buffer of n position-distinct values 1, 2, ..., n
Ramp(n) == [i \in 1..n |-> i]

Datas == {Ramp(n) : n \in 0..MaxLen}

RECURSIVE RowsFrom(_, _)
\* nested rows of the given lengths holding position-distinct values
RowsFrom(lens, start) ==
    IF lens = <<>> THEN <<>>
    ELSE <<[j \in 1..Head(lens) |-> start + j]>>
         \o RowsFrom(Tail(lens), start + Head(lens))

\* inputs of Tensor::new: empty, rectangular and ragged row lists
RowLists == {RowsFrom(lens, 0) : lens \in SeqsUpTo(Dims, MaxRows)}

Axes == 0..MaxAxis

Scalars == 1..MaxScalar

\* the environment a call runs in; a kernel handed buffers that break its
\* contract may abort or not
Envs == {Env(device, cpu_ok, accel_ok, l) : l \in BOOLEAN}

\* the environment of the calls that hand no operand buffers to a kernel
env0 == Env(device, cpu_ok, accel_ok, FALSE)

---------------------------------------------------------------------------
(* The state machine.                                                      *)

\* the record of a call: the operation, its operands and arguments (for a
\* constructor, its inputs), and its outcome
Call(op, self, other, arg, r) ==
    [op |-> op, self |-> self, other |-> other, arg |-> arg,
     kind |-> r.kind, out |-> r.out, val |-> r.val, err |-> r.err,
     calls |-> r.calls]

NoCall ==
    [op |-> "None", self |-> NoTensor, other |-> NoTensor, arg |-> <<>>,
     kind |-> "None", out |-> NoTensor, val |-> 0, err |-> NoError,
     calls |-> <<>>]

Constructors == {"new", "from_vec", "deserialize"}

\* the process resolves its default device once; only the native-kernel and
\* compute-shader kinds have an accelerated backend to construct
Init ==
    /\ device \in DeviceTypes
    /\ cpu_ok \in BOOLEAN
    /\ accel_ok \in (IF device \in {"Cuda", "Vulkan"} THEN BOOLEAN ELSE {FALSE})
    /\ lhs = NoTensor
    /\ rhs = NoTensor
    /\ res = NoCall

\* the client goes on only after a call that returned Ok
Running == res.kind \in {"None", "Ok"}

\* `let t = <constructor>(..)?`: bind the first free operand
Bind(r) ==
    IF r.kind # "Ok" THEN UNCHANGED <<lhs, rhs>>
    ELSE IF lhs = NoTensor THEN lhs' = r.out /\ UNCHANGED rhs
    ELSE rhs' = r.out /\ UNCHANGED lhs

\* operands are constructed before the first operation is applied
Constructing ==
    /\ Running
    /\ rhs = NoTensor
    /\ res.op \in Constructors \cup {"None"}

New ==
    /\ Constructing
    /\ \E data \in RowLists :
         LET r == new(data, env0)
         IN  /\ res' = Call("new", NoTensor, NoTensor, <<data>>, r)
             /\ Bind(r)
    /\ UNCHANGED <<device, cpu_ok, accel_ok>>

FromVec ==
    /\ Constructing
    /\ \E data \in Datas, shape \in Shapes :
         LET r == from_vec(data, shape, env0)
         IN  /\ res' = Call("from_vec", NoTensor, NoTensor, <<data, shape>>, r)
             /\ Bind(r)
    /\ UNCHANGED <<device, cpu_ok, accel_ok>>

\* a unary operation on the bound left operand
Unary(op, arg, r) ==
    /\ Running
    /\ lhs # NoTensor
    /\ rhs = NoTensor
    /\ res' = Call(op, lhs, NoTensor, arg, r)
    /\ UNCHANGED <<device, cpu_ok, accel_ok, lhs, rhs>>

\* a binary operation that stores its result in its left operand
BinaryInPlace(op, r) ==
    /\ Running
    /\ lhs # NoTensor
    /\ rhs # NoTensor
    /\ res' = Call(op, lhs, rhs, <<>>, r)
    /\ lhs' = (IF r.kind = "Ok" /\ r.out # NoTensor THEN r.out ELSE lhs)
    /\ UNCHANGED <<device, cpu_ok, accel_ok, rhs>>

\* a binary operation on the two bound operands, both borrowed immutably
Binary(op, r) ==
    /\ Running
    /\ lhs # NoTensor
    /\ rhs # NoTensor
    /\ res' = Call(op, lhs, rhs, <<>>, r)
    /\ UNCHANGED <<device, cpu_ok, accel_ok, lhs, rhs>>

Matmul == \E env \in Envs : Binary("matmul", matmul(lhs, rhs, env))

Add == \E env \in Envs : Binary("add", add(lhs, rhs, env))

Sub == \E env \in Envs : Binary("sub", sub(lhs, rhs, env))

Mul == \E env \in Envs : Binary("mul", mul(lhs, rhs, env))

Div == \E env \in Envs : Binary("div", div(lhs, rhs, env))

Transpose == Unary("transpose", <<>>, transpose(lhs, env0))

MulScalar ==
    \E scalar \in Scalars :
        Unary("mul_scalar", <<scalar>>, mul_scalar(lhs, scalar, env0))

AddScalar ==
    \E scalar \in Scalars :
        Unary("add_scalar", <<scalar>>, add_scalar(lhs, scalar, env0))

Clip ==
    \E min \in Scalars, max \in Scalars :
        Unary("clip", <<min, max>>, clip(lhs, min, max, env0))

Log == Unary("log", <<>>, log(lhs, env0))

Neg == Unary("neg", <<>>, neg(lhs, env0))

Exp == Unary("exp", <<>>, exp(lhs, env0))

Pow == \E power \in Scalars : Unary("pow", <<power>>, pow(lhs, power, env0))

Sqrt == Unary("sqrt", <<>>, sqrt(lhs, env0))

Sum == \E axis \in Axes : Unary("sum", <<axis>>, sum(lhs, axis, env0))

MaxAlongAxis ==
    \E axis \in Axes :
        Unary("max_along_axis", <<axis>>, max_along_axis(lhs, axis, env0))

Reshape ==
    \E new_shape \in Shapes : Unary("reshape", new_shape, reshape(lhs, new_shape))

Mean == Unary("mean", <<>>, mean(lhs))

SumAll == Unary("sum_all", <<>>, sum_all(lhs))

Serialize == Unary("serialize", <<>>, serialize(lhs))

\* `Tensor::deserialize(&bytes[..n])?` on the bytes serialize just returned,
\* whole or cut short
Deserialize ==
    /\ Running
    /\ res.op = "serialize"
    /\ \E n \in 0..Len(res.val) :
         LET bytes == SubSeq(res.val, 1, n)
             r == deserialize(bytes, env0)
         IN  /\ res' = Call("deserialize", NoTensor, NoTensor, <<bytes>>, r)
             /\ Bind(r)
    /\ UNCHANGED <<device, cpu_ok, accel_ok>>

Next ==
    \/ New
    \/ FromVec
    \/ Matmul
    \/ Transpose
    \/ Add
    \/ Sub
    \/ Mul
    \/ Div
    \/ MulScalar
    \/ AddScalar
    \/ Clip
    \/ Log
    \/ Neg
    \/ Exp
    \/ Pow
    \/ Sqrt
    \/ Sum
    \/ MaxAlongAxis
    \/ Reshape
    \/ Mean
    \/ SumAll
    \/ Serialize
    \/ Deserialize

Spec == Init /\ [][Next]_vars

---------------------------------------------------------------------------
(* Vocabulary of the properties.                                           *)

Rank(t) == Len(t.shape)

\* the Tensor invariant of the data model
WellFormed(t) == Len(t.data) = product(t.shape)

\* the last call returned a Tensor
ReturnedTensor == res.kind = "Ok" /\ res.out # NoTensor

\* the last call was an operation on Tensors, not a constructor
IsOperation == res.op \notin Constructors \cup {"None"}

\* nested rows that are non-empty and rectangular
Rectangular(rows) ==
    /\ rows # <<>>
    /\ \A r \in 1..Len(rows) : Len(rows[r]) = Len(rows[1])

\* the input of the last constructor call is well-formed
WellFormedInput ==
    CASE res.op = "new" -> Rectangular(res.arg[1])
      [] res.op = "from_vec" -> Len(res.arg[1]) = product(res.arg[2])
      [] OTHER -> FALSE

\* the backend of the resolved device kind can be constructed; the source
\* constructs no backend of the vendor-shader kind
DeviceBackendConstructs ==
    CASE device = "Cpu" -> cpu_ok
      [] device \in {"Cuda", "Vulkan"} -> accel_ok
      [] OTHER -> FALSE

\* the operands of the last call are well-formed and the reference backend
\* and the backend from_vec asks for can be constructed
Healthy ==
    /\ cpu_ok
    /\ from_vec_backend(env0).ok
    /\ WellFormed(res.self)
    /\ res.other # NoTensor => WellFormed(res.other)

---------------------------------------------------------------------------
(* Properties.                                                             *)

\* C1: every Tensor returned by a public constructor or operation satisfies
\* len(data) = product(shape), and a construction attempt whose data length
\* differs from product(shape) fails with InvalidDataLength{expected, got}
\* instead of returning a Tensor.  (Tensor::new does not check its rows.)
C1_LengthInvariant ==
    /\ ReturnedTensor => WellFormed(res.out)
    /\ (res.op = "from_vec" /\ Len(res.arg[1]) # product(res.arg[2]))
         => /\ res.kind = "Err"
            /\ res.err = InvalidDataLength(product(res.arg[2]), Len(res.arg[1]))
    /\ (res.op = "new" /\ res.arg[1] # <<>>
          /\ Len(flatten(res.arg[1])) # Len(res.arg[1]) * Len(res.arg[1][1]))
         => /\ res.kind = "Err"
            /\ res.err.type = "InvalidDataLength"

\* C2: the Tensor an operation produces carries the backend variant of the
\* Tensor it was applied to.  (Every operation but reshape re-selects the
\* backend through from_vec.)
C2_BackendInherited ==
    (IsOperation /\ ReturnedTensor) => res.out.backend = res.self.backend

\* C3: with the reference backend constructible, either constructor succeeds
\* on well-formed input whatever the device kind and whatever the outcome of
\* the accelerated backend's construction.  (from_vec propagates a failed
\* VulkanBackend::new().)
C3_FallbackSucceeds ==
    (res.op \in Constructors /\ WellFormedInput /\ cpu_ok) => res.kind = "Ok"

\* C4: for a device kind whose backend constructs, new and from_vec both
\* attach the backend of that kind, so two operands built in one process
\* never carry different backend variants.  (from_vec maps Cuda to the CPU
\* backend.)
C4_UniformBackend ==
    DeviceBackendConstructs =>
        /\ (res.op \in Constructors /\ res.kind = "Ok")
             => res.out.backend = device
        /\ (lhs # NoTensor /\ rhs # NoTensor) => lhs.backend = rhs.backend

\* C5: Tensor::new on an empty outer list or on rows of unequal length
\* returns an error value; it neither aborts nor returns a Tensor.  Stated
\* with the reference backend constructible, so that an error can only be
\* about the input.  (new indexes data[0] and never compares row lengths.)
C5_NewRejectsMalformed ==
    (res.op = "new" /\ ~Rectangular(res.arg[1]) /\ cpu_ok) => res.kind = "Err"

\* C6: matmul with an operand whose rank is not 2 returns an error, without
\* aborting and without dispatching to the backend.
C6_MatmulRank ==
    (res.op = "matmul" /\ (Rank(res.self) # 2 \/ Rank(res.other) # 2))
        => res.kind = "Err" /\ res.calls = <<>>

\* C7: matmul of 2-D operands fails with MatrixMultiplicationError carrying
\* both shapes when lhs.shape[1] # rhs.shape[0], and otherwise succeeds with
\* shape [lhs.shape[0], rhs.shape[1]].  Stated for well-formed operands with
\* the reference backend constructible.  (The result is wrapped by from_vec,
\* which fails when VulkanBackend::new() does: see C3.)
C7_MatmulDims ==
    (res.op = "matmul" /\ Rank(res.self) = 2 /\ Rank(res.other) = 2
       /\ cpu_ok /\ WellFormed(res.self) /\ WellFormed(res.other))
        => IF res.self.shape[2] # res.other.shape[1]
           THEN /\ res.kind = "Err"
                /\ res.err = MatrixMultiplicationError(res.self.shape,
                                                       res.other.shape)
           ELSE /\ ReturnedTensor
                /\ res.out.shape = <<res.self.shape[1], res.other.shape[2]>>

\* the two shape pairs add and sub accept
SameShape == res.self.shape = res.other.shape

RowBroadcast ==
    /\ Rank(res.self) = 2
    /\ Rank(res.other) = 1
    /\ res.self.shape[2] = res.other.shape[1]

\* C8: add and sub return a Tensor only for equal shapes or for lhs
\* [batch, features] with rhs [features]; for every other pair of shapes
\* they fail with InvalidShape{expected: lhs.shape, got: rhs.shape} before
\* touching the backend.
C8_AddSubShapes ==
    res.op \in {"add", "sub"} =>
        /\ ReturnedTensor => (SameShape \/ RowBroadcast)
        /\ ~(SameShape \/ RowBroadcast)
             => /\ res.kind = "Err"
                /\ res.err = InvalidShape(res.self.shape, res.other.shape)
                /\ res.calls = <<>>

\* C8's case: an lhs of rank 1 with an rhs of rank 2 was rejected
C8_Witness ==
    /\ res.op = "add"
    /\ Rank(res.self) = 1
    /\ Rank(res.other) = 2
    /\ res.self.shape[1] = res.other.shape[2]
    /\ res.kind = "Err"
    /\ res.err.type = "InvalidShape"

\* C9: for lhs [batch, features] and rhs [features], batch >= 0 and
\* features >= 0, add (sub) returns a Tensor of shape [batch, features] whose
\* element (i, j) is lhs[i][j] + rhs[j] (lhs[i][j] - rhs[j]).  Stated for
\* well-formed operands whose result backend can be constructed.  (add
\* aborts when features = 0.)
C9_RowBroadcast ==
    (res.op \in {"add", "sub"} /\ RowBroadcast /\ Healthy)
        => /\ ReturnedTensor
           /\ res.out.shape = res.self.shape
           /\ Len(res.out.data) = Len(res.self.data)
           /\ \A i \in 0..(res.self.shape[1] - 1),
                 j \in 0..(res.self.shape[2] - 1) :
                 LET p == i * res.self.shape[2] + j
                 IN  At(res.out.data, p) =
                       IF res.op = "add"
                       THEN At(res.self.data, p) + At(res.other.data, j)
                       ELSE At(res.self.data, p) - At(res.other.data, j)

IsReduction == res.op \in {"sum", "max_along_axis"}

\* C10 as claimed: sum and max_along_axis fail with InvalidAxis{axis, shape}
\* for every Tensor, of any rank, and every axis other than 0 or 1.
C10_AnyRankInvalidAxis ==
    (IsReduction /\ res.arg[1] \notin {0, 1})
        => /\ res.kind = "Err"
           /\ res.err = InvalidAxis(res.arg[1], res.self.shape)

\* C10 amended: for every axis other than 0 or 1 the call fails and returns
\* no Tensor: with InvalidAxis{axis, shape} when axis >= rank, which covers
\* every Tensor of rank at most 2, and with InvalidOperation when the rank
\* exceeds 2 and axis < rank.
C10_AxisRejected ==
    (IsReduction /\ res.arg[1] \notin {0, 1})
        => /\ res.kind = "Err"
           /\ res.arg[1] >= Rank(res.self)
                => res.err = InvalidAxis(res.arg[1], res.self.shape)
           /\ res.arg[1] < Rank(res.self)
                => /\ Rank(res.self) > 2
                   /\ res.err = InvalidOperation(res.op)

\* C10's case: sum(axis = 2) on a 2-D Tensor failed with the axis error
C10_Witness ==
    /\ res.op = "sum"
    /\ res.arg = <<2>>
    /\ Rank(res.self) = 2
    /\ res.kind = "Err"
    /\ res.err.type = "InvalidAxis"

\* element (i, j), counted from 0, of a row-major 2-D Tensor
Elem(t, i, j) == At(t.data, i * t.shape[2] + j)

\* C11: for a 2-D Tensor of shape [rows, cols], rows >= 0 and cols >= 0,
\* sum(0) returns shape [1, cols] holding the column sums and sum(1) returns
\* shape [rows, 1] holding the row sums; max_along_axis returns the same two
\* shapes.  Stated for well-formed operands whose result backend can be
\* constructed.  (sum(1) aborts when cols = 0.)
C11_AxisReduction ==
    (IsReduction /\ Rank(res.self) = 2 /\ res.arg[1] \in {0, 1} /\ Healthy)
        => LET rows == res.self.shape[1]
               cols == res.self.shape[2]
           IN  /\ ReturnedTensor
               /\ res.out.shape =
                    IF res.arg[1] = 0 THEN <<1, cols>> ELSE <<rows, 1>>
               /\ res.op = "sum" =>
                    res.out.data =
                      IF res.arg[1] = 0
                      THEN [j \in 1..cols |->
                              SumSeq([i \in 1..rows |->
                                        Elem(res.self, i - 1, j - 1)])]
                      ELSE [i \in 1..rows |->
                              SumSeq([j \in 1..cols |->
                                        Elem(res.self, i - 1, j - 1)])]

\* C12: for a 2-D Tensor t of shape [m, n], t.transpose() has shape [n, m]
\* with element [j][i] equal to t[i][j], and t.transpose().transpose() has
\* exactly t's shape and data; transpose of a Tensor whose rank is not 2
\* fails with InvalidShape.  Stated for a well-formed operand with the
\* reference backend constructible.  (The result is wrapped by from_vec,
\* which fails when VulkanBackend::new() does: see C3.)
C12_TransposeInverse ==
    (res.op = "transpose" /\ cpu_ok /\ WellFormed(res.self))
        => IF Rank(res.self) # 2
           THEN /\ res.kind = "Err"
                /\ res.err.type = "InvalidShape"
           ELSE /\ ReturnedTensor
                /\ res.out.shape = <<res.self.shape[2], res.self.shape[1]>>
                /\ \A i \in 0..(res.self.shape[1] - 1),
                      j \in 0..(res.self.shape[2] - 1) :
                      Elem(res.out, j, i) = Elem(res.self, i, j)
                /\ LET back == transpose(res.out, env0)
                   IN  /\ back.kind = "Ok"
                       /\ back.out.shape = res.self.shape
                       /\ back.out.data = res.self.data

\* C13: reshape(new_shape) succeeds exactly when product(new_shape) equals
\* the product of the operand's shape; on success the result has shape
\* new_shape and the operand's data buffer, element for element; otherwise
\* it fails with InvalidShape and returns no Tensor.  (reshape compares
\* against data.len(), which differs from the product of the shape on a
\* Tensor built by Tensor::new from ragged rows: see C1.)
C13_Reshape ==
    res.op = "reshape" =>
        /\ ReturnedTensor <=> product(res.arg) = product(res.self.shape)
        /\ ReturnedTensor
             => /\ res.out.shape = res.arg
                /\ res.out.data = res.self.data
        /\ ~ReturnedTensor
             => /\ res.kind = "Err"
                /\ res.err.type = "InvalidShape"

\* the bytes handed to the last deserialize call
Input == res.arg[1]

\* C14: for every constructed Tensor t, deserialize(serialize(t)) succeeds
\* and yields a Tensor whose shape and data are identical to t's, each
\* dimension being written and read back as a 32-bit little-endian value.
\* Stated for a well-formed t with the reference backend constructible.
\* (deserialize builds its result with from_vec, which fails when
\* VulkanBackend::new() does: see C3.)
C14_RoundTrip ==
    (res.op = "deserialize" /\ Input = serialize(lhs).val
       /\ cpu_ok /\ WellFormed(lhs))
        => /\ ReturnedTensor
           /\ res.out.shape = lhs.shape
           /\ res.out.data = lhs.data

\* the input is shorter than 4 bytes, or shorter than the 4 + 4 * R bytes of
\* the header its first word announces
Truncated ==
    \/ Len(Input) < 4
    \/ Len(Input) < 4 + 4 * from_le_bytes(word(Input, 0))

C16_Mean ==
    res.op = "mean" =>
        IF Len(res.self.data) = 0
        THEN /\ res.kind = "Err"
             /\ res.err = InvalidOperation("mean")
             /\ res.calls = <<>>
        ELSE /\ res.kind = "Ok"
             /\ res.val = backend_mean(res.self.data)
             /\ res.calls = <<"mean">>

\* C16's case: mean was refused on a Tensor of shape [2, 0], which holds no
\* element
C16_Witness ==
    /\ res.op = "mean"
    /\ res.self.shape = <<2, 0>>
    /\ res.self.data = <<>>
    /\ res.kind = "Err"
    /\ res.err = InvalidOperation("mean")

ContractErrors ==
    {"InvalidShape", "InvalidAxis", "InvalidOperation",
     "MatrixMultiplicationError"}

\* C18: a call of an operation that returns InvalidShape, InvalidAxis,
\* InvalidOperation or MatrixMultiplicationError has invoked no method of
\* the backend (matmul, add, sub, multiply, div, sum, mean, exp, sqrt, pow)
\* during that call.
C18_ValidationFirst ==
    (IsOperation /\ res.kind = "Err" /\ res.err.type \in ContractErrors)
        => res.calls = <<>>

\* C18's case: mul of operands of shapes [2] and [1, 2], whose buffers are
\* of one length, was rejected with no kernel called
C18_Witness ==
    /\ res.op = "mul"
    /\ res.self.shape = <<2>>
    /\ res.other.shape = <<1, 2>>
    /\ Len(res.self.data) = Len(res.other.data)
    /\ res.kind = "Err"
    /\ res.err.type = "InvalidShape"
    /\ res.calls = <<>>

\* C19: on every pair of well-formed operands, shapes with a zero-sized
\* dimension included, add and sub either both return a Tensor of the same
\* shape or both return the same kind of error; neither aborts where the
\* other returns.  Stated with the result backend constructible.  (add
\* aborts on lhs [batch, 0] with rhs [0], where sub returns a Tensor.)
C19_AddSubAlike ==
    (res.op \in {"add", "sub"} /\ Healthy)
        => LET twin == IF res.op = "add"
                       THEN sub(res.self, res.other, env0)
                       ELSE add(res.self, res.other, env0)
           IN  /\ res.kind = twin.kind
               /\ res.kind = "Ok" => res.out.shape = twin.out.shape
               /\ res.kind = "Err" => res.err.type = twin.err.type

====
